---- MODULE Spec2Model ----
(***************************************************************************)
(* micrite: read-quality triage (src/src/bam.rs) and kraken hit calling    *)
(* (src/src/kraken.rs).                                                    *)
(*                                                                         *)
(* Five state machines share this module:                                  *)
(*   SpecQual     - one call of is_good_quality_sequence or                *)
(*                  is_good_quality_alignment on a bounded record;         *)
(*   SpecBam      - one run of bam2unmappedreads over an alignment source; *)
(*   SpecKraken   - one run of identify_kraken_hits_from_kreport;          *)
(*   SpecTables   - one lookup in a MicrobialContigs or CancerMicrobes;    *)
(*   SpecPipeline - one run of bam2microbes under main: the scan, the      *)
(*                  classifier, the hit caller and the FASTA removal.      *)
(*                                                                         *)
(* Numbers: f64/f32 thresholds are modelled by the integers they can hold  *)
(* (17.0 is 17); the mean phred total/count is kept as the exact fraction  *)
(* [num, den], and compared by cross-multiplication.  For an integral      *)
(* threshold m and u32 total, usize count, fl(total/count) < m holds       *)
(* exactly when total < m * count, so the f64 rounding is not lost.        *)
(***************************************************************************)
EXTENDS Integers, Sequences, FiniteSets, TLC

\* ------------------------------------------------------------------ bounds

\* Longest sequence (bases and qualities) of a record handed to the classifier.
MaxLen == 2

\* Most rows the kraken report yields in one run.
MaxRows == 2

\* Most records the alignment source yields in one run of bam2unmappedreads,
\* over the unmapped partition and the contigs together.
MaxReads == 3

\* Longest generated table a lookup is run on.
MaxEntries == 2

\* ------------------------------------------------------------ state

VARIABLES
    \* SpecQual: the classifier called once
    q_record,   \* the bam::Record handed to parse_record
    q_args,     \* the thresholds of the call
    q_ret,      \* [fn, value] once the call returned, NoCall before
    \* SpecKraken: identify_kraken_hits_from_kreport
    k_pc,                       \* "idle", "scan", "done" (Ok(())) or "err" (Err returned)
    k_thresholds,               \* thresholds: &KrakenHitThresholds
    k_seen,                     \* the KreportRecords rdr_kreport has yielded so far
    k_hits,                     \* the KrakenHit rows serialized to wtr so far
    n_non_oncogenics_excluded,
    n_microbial_hits,
    \* SpecBam: bam2unmappedreads
    b_pc,                       \* where the function is; "done" returned, "panicked" unwound
    b_args,                     \* [min_len, min_phred] as passed by the caller
    b_header,                   \* bam.header().target_names()
    b_yielded,                  \* per partition ("*" = unmapped), the records read so far
    records_read,               \* items bam.records() has produced so far, Ok or Err
    observed_microbial_contigs,
    idxstats,                   \* bam.index_stats(): <<tid, len, mapped, unmapped>> each
    summary_writer,             \* [open, lines, created]: the .bam_summary.txt file
    fasta_writer,               \* [open, lines, created]: the FASTA file
    unmapped_counter,
    unmapped_good_quality_sequences,
    contig_idx,                 \* position of contig_name in observed_microbial_contigs
    nreads,
    nreads_mapped,
    nreads_good_sequence,
    nreads_good_alignment,
    \* SpecTables: one lookup in a static table
    t_table,    \* [kind, entries]: a MicrobialContigs or a CancerMicrobes
    t_key,      \* the contig name or taxid looked up
    t_ret,      \* [fn, value] once the call returned, NoCall before
    \* SpecPipeline: main, run and bam2microbes around the scan and the hit caller
    p_pc,       \* the statement bam2microbes is at, or "exited"
    p_trace,    \* the stages started and ended so far, in order
    p_exit,     \* [status, by]: how the process ended, NotExited before
    p_fasta     \* the file at unmapped_fasta: "absent", "written" or "removed"

qvars == <<q_record, q_args, q_ret>>

kvars == <<k_pc, k_thresholds, k_seen, k_hits, n_non_oncogenics_excluded, n_microbial_hits>>

bvars == <<b_pc, b_args, b_header, b_yielded, records_read, observed_microbial_contigs,
           idxstats, summary_writer, fasta_writer, unmapped_counter,
           unmapped_good_quality_sequences, contig_idx, nreads, nreads_mapped,
           nreads_good_sequence, nreads_good_alignment>>

tvars == <<t_table, t_key, t_ret>>

pvars == <<p_pc, p_trace, p_exit, p_fasta>>

vars == <<qvars, kvars, bvars, tvars, pvars>>

\* ------------------------------------------------------- bam.rs: records

Bool == {TRUE, FALSE}

\* Option<T>
None == [some |-> FALSE, value |-> 0]
Some(v) == [some |-> TRUE, value |-> v]
unwrap_or(opt, default) == IF opt.some THEN opt.value ELSE default

IntegerAuxKinds == {"I8", "U8", "I16", "U16", "I32", "U32"}

\* `value as i32`.  I8..I32 fit an i32 and are kept.  A u32 is held as its low 31
\* bits (value) and its top bit (bit31): the cast keeps the bits, so a set top bit
\* makes the result value - 2^31.
as_i32(aux) ==
    IF aux.kind = "U32" /\ aux.bit31 THEN (aux.value - 2147483647) - 1 ELSE aux.value

\* Mutant: an AS tag of any type yields its value as the score.
get_as_tag_any_kind(record) ==
    IF record.aux_as.kind # "NotFound"
    THEN Some(record.aux_as.value)
    ELSE None

\* record.aux(b"AS") is Ok(Aux::<kind>(value)), Err(BamAuxTagNotFound) ("NotFound")
\* or another Err ("Err"); a kind outside IntegerAuxKinds is the arm Ok(_).
get_as_tag(record) ==
    IF record.aux_as.kind \in IntegerAuxKinds
    THEN Some(as_i32(record.aux_as))
    ELSE None

\* BamRecordEnriched: the record, its qname, the bases as a String, the score.
parse_record(record) ==
    [record          |-> record,
     qname           |-> record.qname,
     sequence        |-> record.seq,
     alignment_score |-> unwrap_or(get_as_tag(record), 0)]

\* record.seq_len()
seq_len(record) == Len(record.seq)

\* seq.chars().filter(|c| *c == 'N').count()
number_of_ns(seq) == Cardinality({i \in 1..Len(seq) : seq[i] = "N"})

\* Mutant: the N count test as the doc comment words it (fewer than max_n pass).
seq_ambiguous_inclusive(seq, max_n) == number_of_ns(seq) >= max_n

seq_ambiguous(seq, max_n) == number_of_ns(seq) > max_n

RECURSIVE SumScores(_)
SumScores(qual_scores) ==
    IF qual_scores = <<>> THEN 0
    ELSE Head(qual_scores) + SumScores(Tail(qual_scores))

\* total as f64 / count as f64, or 0.0 for an empty array: the fraction num/den.
calculate_average_phred(qual_scores) ==
    LET total == SumScores(qual_scores)
        count == Len(qual_scores)
    IN IF count > 0 THEN [num |-> total, den |-> count]
                    ELSE [num |-> 0, den |-> 1]

\* Mutant: a mean equal to min_phred counts as below it.
average_below_inclusive(qual_average, min_phred) ==
    qual_average.num <= min_phred * qual_average.den

\* qual_average < min_phred
average_below(qual_average, min_phred) ==
    qual_average.num < min_phred * qual_average.den

\* Mutant: the length test as the doc comment words it (length > min_len passes).
is_good_quality_sequence_len_inclusive(record, min_len, min_phred, max_n) ==
    IF record.record.is_quality_check_failed
       \/ record.record.is_duplicate
       \/ seq_len(record.record) <= min_len
    THEN FALSE
    ELSE ~(seq_ambiguous(record.sequence, max_n)
           \/ average_below(calculate_average_phred(record.record.qual), min_phred))

is_good_quality_sequence(record, min_len, min_phred, max_n) ==
    IF record.record.is_quality_check_failed
       \/ record.record.is_duplicate
       \/ seq_len(record.record) < min_len
    THEN FALSE
    ELSE LET has_ambiguous_bases == seq_ambiguous(record.sequence, max_n)
             qual_average == calculate_average_phred(record.record.qual)
         IN IF has_ambiguous_bases \/ average_below(qual_average, min_phred)
            THEN FALSE
            ELSE TRUE

\* Mutant: the early return on a poor sequence is missing.
is_good_quality_alignment_unguarded(record, min_len, min_phred, max_n, min_mapq, min_alignment_score) ==
    /\ ~record.record.is_secondary
    /\ ~record.record.is_quality_check_failed
    /\ ~record.record.is_unmapped
    /\ record.record.mapq > min_mapq
    /\ record.alignment_score > min_alignment_score

\* Mutant: mapping quality equal to min_mapq passes.
is_good_quality_alignment_mapq_inclusive(record, min_len, min_phred, max_n, min_mapq, min_alignment_score) ==
    /\ is_good_quality_sequence(record, min_len, min_phred, max_n)
    /\ ~record.record.is_secondary
    /\ ~record.record.is_quality_check_failed
    /\ ~record.record.is_unmapped
    /\ record.record.mapq >= min_mapq
    /\ record.alignment_score > min_alignment_score

is_good_quality_alignment(record, min_len, min_phred, max_n, min_mapq, min_alignment_score) ==
    LET good_qual_sequence == is_good_quality_sequence(record, min_len, min_phred, max_n)
    IN IF ~good_qual_sequence
       THEN FALSE
       ELSE /\ ~record.record.is_secondary
            /\ ~record.record.is_quality_check_failed
            /\ ~record.record.is_unmapped
            /\ record.record.mapq > min_mapq
            /\ record.alignment_score > min_alignment_score

\* ------------------------------------------------ SpecQual: one classifier call

\* One position of a read: its base and its phred score.
Positions == {[base |-> "A", q |-> 0], [base |-> "A", q |-> 2], [base |-> "N", q |-> 0]}

RECURSIVE ReadsOfLen(_)
ReadsOfLen(n) ==
    IF n = 0 THEN {<<>>}
    ELSE {Append(r, p) : r \in ReadsOfLen(n - 1), p \in Positions}

Reads == UNION {ReadsOfLen(n) : n \in 0..MaxLen}

Aux(kind, value) == [kind |-> kind, value |-> value, bit31 |-> FALSE]

AuxTags == {Aux("NotFound", 0), Aux("Float", 1), Aux("I32", 0), Aux("I32", 1)}

MkRecord(qname, read, unm, sec, dup, qcf, mapq, aux) ==
    [qname |-> qname,
     seq   |-> [i \in 1..Len(read) |-> read[i].base],
     qual  |-> [i \in 1..Len(read) |-> read[i].q],
     is_unmapped |-> unm, is_secondary |-> sec,
     is_duplicate |-> dup, is_quality_check_failed |-> qcf,
     mapq |-> mapq, aux_as |-> aux]

QRecords ==
    {MkRecord("read", read, unm, sec, dup, qcf, mapq, aux) :
        read \in Reads, unm \in Bool, sec \in Bool, dup \in Bool, qcf \in Bool,
        mapq \in {0, 1}, aux \in AuxTags}

SeqArgs == [min_len : 0..MaxLen, min_phred : {-1, 0, 1, 2}, max_n : {0, 1}]

AlignArgs == [min_len : 0..MaxLen, min_phred : {-1, 0, 1, 2}, max_n : {0, 1},
              min_mapq : {0, 1}, min_alignment_score : {-1, 0}]

NoCall == [fn |-> "none", value |-> FALSE]

QualIdle ==
    /\ q_record = MkRecord("read", <<>>, FALSE, FALSE, FALSE, FALSE, 0, Aux("NotFound", 0))
    /\ q_args = <<>>
    /\ q_ret = NoCall

\* A file of the run: whether a handle on it is open, the lines written to it, and
\* how many times File::create was called on it.
NoFile == [open |-> FALSE, lines |-> <<>>, created |-> 0]

TablesIdle ==
    /\ t_table = <<>>
    /\ t_key = ""
    /\ t_ret = NoCall

NotExited == [status |-> -1, by |-> "none"]

PipelineIdle ==
    /\ p_pc = "idle"
    /\ p_trace = <<>>
    /\ p_exit = NotExited
    /\ p_fasta = "absent"

BamIdle ==
    /\ b_pc = "idle"
    /\ b_args = <<>>
    /\ b_header = <<>>
    /\ b_yielded = <<>>
    /\ records_read = 0
    /\ observed_microbial_contigs = <<>>
    /\ idxstats = <<>>
    /\ summary_writer = NoFile
    /\ fasta_writer = NoFile
    /\ unmapped_counter = 0
    /\ unmapped_good_quality_sequences = 0
    /\ contig_idx = 0
    /\ nreads = 0
    /\ nreads_mapped = 0
    /\ nreads_good_sequence = 0
    /\ nreads_good_alignment = 0

KrakenIdle ==
    /\ k_pc = "idle"
    /\ k_thresholds = <<>>
    /\ k_seen = <<>>
    /\ k_hits = <<>>
    /\ n_non_oncogenics_excluded = 0
    /\ n_microbial_hits = 0

InitQual ==
    /\ q_record \in QRecords
    /\ q_args = <<>>
    /\ q_ret = NoCall
    /\ KrakenIdle
    /\ BamIdle
    /\ TablesIdle
    /\ PipelineIdle

CallSequence ==
    /\ q_ret = NoCall
    /\ \E a \in SeqArgs :
        /\ q_args' = a
        /\ q_ret' = [fn |-> "is_good_quality_sequence",
                     value |-> is_good_quality_sequence(parse_record(q_record),
                                   a.min_len, a.min_phred, a.max_n)]
    /\ UNCHANGED <<q_record, kvars, bvars, tvars, pvars>>

CallAlignment ==
    /\ q_ret = NoCall
    /\ \E a \in AlignArgs :
        /\ q_args' = a
        /\ q_ret' = [fn |-> "is_good_quality_alignment",
                     value |-> is_good_quality_alignment(parse_record(q_record),
                                   a.min_len, a.min_phred, a.max_n,
                                   a.min_mapq, a.min_alignment_score)]
    /\ UNCHANGED <<q_record, kvars, bvars, tvars, pvars>>

NextQual == CallSequence \/ CallAlignment

SpecQual == InitQual /\ [][NextQual]_vars

\* ------------------------------------------- bam.rs: bam2unmappedreads

\* common_microbial_contigs(): the Contig literal, in order.
common_microbial_contigs ==
    <<[contig |-> "chrEBV", taxid |-> "10376", species |-> "EBV"],
      [contig |-> "NC_009334", taxid |-> "10376", species |-> "EBV"],
      [contig |-> "NC_007605", taxid |-> "10376", species |-> "EBV"],
      [contig |-> "NC_000898", taxid |-> "10376", species |-> "HHV6B"]>>

\* MicrobialContigs::contains
MicrobialContigs_contains(contigs, contig_name) ==
    \E i \in 1..Len(contigs) : contigs[i].contig = contig_name

\* contigs.iter().filter(|c| microbial_contigs.contains(c)).cloned().collect()
RECURSIVE filter_microbial(_)
filter_microbial(contigs) ==
    IF contigs = <<>> THEN <<>>
    ELSE IF MicrobialContigs_contains(common_microbial_contigs, Head(contigs))
         THEN <<Head(contigs)>> \o filter_microbial(Tail(contigs))
         ELSE filter_microbial(Tail(contigs))

\* Mutant: the total counts the mapped reads only.
RECURSIVE total_reads_mapped_only(_)
total_reads_mapped_only(stats) ==
    IF stats = <<>> THEN 0 ELSE Head(stats)[3] + total_reads_mapped_only(Tail(stats))

\* idxstats.iter().map(|c| c.2 + c.3).sum(); c.2 and c.3 are the tuple's third and
\* fourth fields.
RECURSIVE total_reads_of(_)
total_reads_of(stats) ==
    IF stats = <<>> THEN 0
    ELSE (Head(stats)[3] + Head(stats)[4]) + total_reads_of(Tail(stats))

\* idxstats.iter().map(|c| c.2).sum()
RECURSIVE total_mapped_reads_of(_)
total_mapped_reads_of(stats) ==
    IF stats = <<>> THEN 0 ELSE Head(stats)[3] + total_mapped_reads_of(Tail(stats))

\* idxstats.iter().map(|c| c.3).sum()
RECURSIVE total_unmapped_reads_of(_)
total_unmapped_reads_of(stats) ==
    IF stats = <<>> THEN 0 ELSE Head(stats)[4] + total_unmapped_reads_of(Tail(stats))

\* The three writeln!s of the BAM-level totals, in the order they are made.
summary_totals(stats) ==
    <<<<"total depth (number of reads)", "\t", total_reads_of(stats)>>,
      <<"total mapped reads", "\t", total_mapped_reads_of(stats)>>,
      <<"total unmapped reads", "\t", total_unmapped_reads_of(stats)>>>>

\* writeln!(summary_writer, "Contig [{}] good quality alignments\t{}", ..)
contig_line(contig_name, n) ==
    <<"Contig [", contig_name, "] good quality alignments", "\t", n>>

\* writeln!(fasta_writer, ">{}\n{}", bam_record.qname, bam_record.sequence)
fasta_entry(bam_record) ==
    <<">", bam_record.qname, "\n", bam_record.sequence, "\n">>

\* Pass 1: is_good_quality_sequence(&bam_record, 50, 17.0, 2)
pass1_good_sequence(bam_record) == is_good_quality_sequence(bam_record, 50, 17, 2)

\* Mutant: pass 2 writes a good sequence whatever its unmapped flag is.
pass2_good_sequence_any_flag(record, bam_record) ==
    is_good_quality_sequence(bam_record, 50, 17, 2)

\* Pass 2: !record.is_unmapped() & is_good_quality_sequence(&bam_record, 50, 17.0, 2)
pass2_good_sequence(record, bam_record) ==
    ~record.is_unmapped /\ is_good_quality_sequence(bam_record, 50, 17, 2)

\* Mutant: pass 2 counts good sequences as good alignments.
pass2_good_alignment_as_sequence(bam_record) ==
    is_good_quality_sequence(bam_record, 50, 17, 2)

\* Mutant: pass 2 counts good alignments without looking at the sequence.
pass2_good_alignment_unguarded(bam_record) ==
    is_good_quality_alignment_unguarded(bam_record, 50, 17, 2, 10, 130)

\* Pass 2: is_good_quality_alignment(&bam_record, 50, 17.0, 2, 10, 130)
pass2_good_alignment(bam_record) ==
    is_good_quality_alignment(bam_record, 50, 17, 2, 10, 130)

\* ---- the alignment source of a run

\* A read of len bases, the first ns of them N, every score q.
ReadOf(len, ns, q) ==
    [i \in 1..len |-> [base |-> IF i <= ns THEN "N" ELSE "A", q |-> q]]

\* The records a source can yield, by qname.  Each sits on a threshold of the
\* production call sites: 50 bases, 2 Ns, mean 17, mapq 10, AS 130.
RecordIds == {"good", "weak_alignment", "mate_unmapped", "short", "low_phred"}

Catalogue ==
    [id \in RecordIds |->
        CASE id = "good" ->
                MkRecord(id, ReadOf(50, 2, 17), FALSE, FALSE, FALSE, FALSE, 11, Aux("I32", 131))
          [] id = "weak_alignment" ->
                MkRecord(id, ReadOf(50, 0, 17), FALSE, FALSE, FALSE, FALSE, 10, Aux("I32", 131))
          [] id = "mate_unmapped" ->
                MkRecord(id, ReadOf(50, 0, 30), TRUE, FALSE, FALSE, FALSE, 0, Aux("NotFound", 0))
          [] id = "short" ->
                MkRecord(id, ReadOf(49, 0, 30), FALSE, FALSE, FALSE, FALSE, 60, Aux("I32", 140))
          [] id = "low_phred" ->
                MkRecord(id, ReadOf(50, 0, 16), FALSE, FALSE, FALSE, FALSE, 60, Aux("I32", 140))]

\* Headers of the sources: no microbial contig; one among others; two, in an order
\* that is not the table's.
Headers == {<<"chr1", "chr2">>,
            <<"chr1", "chrEBV", "chr2">>,
            <<"NC_000898", "chr1", "chrEBV">>}

\* The partitions a source can be positioned at: "*" is FetchDefinition::Unmapped.
Partitions == {"*", "chr1", "chr2", "chrEBV", "NC_000898"}

\* What index_stats() can return for a header of n targets: one tuple per target
\* and a last one (tid -1) for the reads without coordinates.
IdxStatsOf(n) ==
    {[i \in 1..(n + 1) |-> <<IF i = n + 1 THEN -1 ELSE i - 1, 0, 0, 0>>],
     [i \in 1..(n + 1) |-> IF i = n + 1 THEN <<-1, 0, 0, 3>> ELSE <<i - 1, 1000, i, 1>>]}

\* [min_len, min_phred] a caller passes: bam2microbes' (50, 17.0), and another.
CallerArgs == {[min_len |-> 50, min_phred |-> 17], [min_len |-> 51, min_phred |-> 18]}

InitBam ==
    /\ QualIdle
    /\ KrakenIdle
    /\ TablesIdle
    /\ PipelineIdle
    /\ b_pc = "start"
    /\ b_args \in CallerArgs
    /\ b_header \in Headers
    /\ b_yielded = [p \in Partitions |-> <<>>]
    /\ records_read = 0
    /\ observed_microbial_contigs = <<>>
    /\ idxstats = <<>>
    /\ summary_writer = NoFile
    /\ fasta_writer = NoFile
    /\ unmapped_counter = 0
    /\ unmapped_good_quality_sequences = 0
    /\ contig_idx = 0
    /\ nreads = 0
    /\ nreads_mapped = 0
    /\ nreads_good_sequence = 0
    /\ nreads_good_alignment = 0

\* Mutant: a handle survives the end of the function.
dropped_still_open(writer) == writer

\* The files bam2unmappedreads holds are dropped, hence closed, when it returns and
\* when a panic unwinds through it; what was written stays in them.
dropped(writer) == [writer EXCEPT !.open = FALSE]

\* A panic!/expect/unwrap_or_else failure anywhere in the function.
Panic ==
    /\ b_pc' = "panicked"
    /\ summary_writer' = dropped(summary_writer)
    /\ fasta_writer' = dropped(fasta_writer)

counters == <<unmapped_counter, unmapped_good_quality_sequences, contig_idx, nreads,
              nreads_mapped, nreads_good_sequence, nreads_good_alignment>>

\* bam.rs:54-85: the reader opens; header names and the microbial ones among them.
OpenReader ==
    /\ b_pc = "start"
    /\ b_pc' = "index_stats"
    /\ observed_microbial_contigs' = filter_microbial(b_header)
    /\ UNCHANGED <<b_args, b_header, b_yielded, records_read, idxstats, summary_writer,
                   fasta_writer, counters, qvars, kvars, tvars, pvars>>

\* bam.rs:55-60: IndexedReader::from_path fails.
OpenReaderFails ==
    /\ b_pc = "start"
    /\ Panic
    /\ UNCHANGED <<b_args, b_header, b_yielded, records_read, observed_microbial_contigs,
                   idxstats, counters, qvars, kvars, tvars, pvars>>

\* bam.rs:88-95: the index statistics are read.
IndexStats ==
    /\ b_pc = "index_stats"
    /\ b_pc' = "summary"
    /\ idxstats' \in IdxStatsOf(Len(b_header))
    /\ UNCHANGED <<b_args, b_header, b_yielded, records_read, observed_microbial_contigs,
                   summary_writer, fasta_writer, counters, qvars, kvars, tvars, pvars>>

\* bam.rs:109-124: the summary file is created and the three totals written.
WriteSummaryTotals ==
    /\ b_pc = "summary"
    /\ b_pc' = "fetch_unmapped"
    /\ summary_writer' = [open |-> TRUE, lines |-> summary_totals(idxstats),
                        created |-> summary_writer.created + 1]
    /\ UNCHANGED <<b_args, b_header, b_yielded, records_read, observed_microbial_contigs,
                   idxstats, fasta_writer, counters, qvars, kvars, tvars, pvars>>

\* bam.rs:132-141: the source is positioned at the unmapped reads, the FASTA file
\* created, the pass 1 counters set to 0.
FetchUnmapped ==
    /\ b_pc = "fetch_unmapped"
    /\ b_pc' = "pass1"
    /\ fasta_writer' = [open |-> TRUE, lines |-> <<>>, created |-> fasta_writer.created + 1]
    /\ unmapped_good_quality_sequences' = 0
    /\ unmapped_counter' = 0
    /\ UNCHANGED <<b_args, b_header, b_yielded, records_read, observed_microbial_contigs,
                   idxstats, summary_writer, contig_idx, nreads, nreads_mapped,
                   nreads_good_sequence, nreads_good_alignment, qvars, kvars, tvars, pvars>>

\* bam.rs:132-133: bam.fetch(FetchDefinition::Unmapped) fails.
FetchUnmappedFails ==
    /\ b_pc = "fetch_unmapped"
    /\ Panic
    /\ UNCHANGED <<b_args, b_header, b_yielded, records_read, observed_microbial_contigs,
                   idxstats, counters, qvars, kvars, tvars, pvars>>

\* bam.rs:142-156: one turn of the pass 1 loop on a record that reads.
Pass1Record ==
    /\ b_pc = "pass1"
    /\ records_read < MaxReads
    /\ \E id \in RecordIds :
        LET record == Catalogue[id]
            bam_record == parse_record(record)
        IN /\ b_yielded' = [b_yielded EXCEPT !["*"] = Append(@, id)]
           /\ unmapped_counter' = unmapped_counter + 1
           /\ IF pass1_good_sequence(bam_record)
              THEN /\ unmapped_good_quality_sequences' = unmapped_good_quality_sequences + 1
                   /\ fasta_writer' = [fasta_writer EXCEPT
                                         !.lines = Append(@, fasta_entry(bam_record))]
              ELSE UNCHANGED <<unmapped_good_quality_sequences, fasta_writer>>
    /\ records_read' = records_read + 1
    /\ UNCHANGED <<b_pc, b_args, b_header, observed_microbial_contigs, idxstats,
                   summary_writer, contig_idx, nreads, nreads_mapped,
                   nreads_good_sequence, nreads_good_alignment, qvars, kvars, tvars, pvars>>

\* bam.rs:143: a record of the unmapped partition fails to read.
Pass1ReadFails ==
    /\ b_pc = "pass1"
    /\ records_read < MaxReads
    /\ records_read' = records_read + 1
    /\ Panic
    /\ UNCHANGED <<b_args, b_header, b_yielded, observed_microbial_contigs,
                   idxstats, counters, qvars, kvars, tvars, pvars>>

\* bam.rs:157-162: the unmapped partition is exhausted.
Pass1End ==
    /\ b_pc = "pass1"
    /\ b_pc' = "contigs"
    /\ UNCHANGED <<b_args, b_header, b_yielded, records_read, observed_microbial_contigs,
                   idxstats, summary_writer, fasta_writer, counters, qvars, kvars, tvars, pvars>>

\* bam.rs:165-172: the next microbial contig is fetched and its counters set to 0.
FetchContig ==
    /\ b_pc = "contigs"
    /\ contig_idx < Len(observed_microbial_contigs)
    /\ b_pc' = "pass2"
    /\ contig_idx' = contig_idx + 1
    /\ nreads' = 0
    /\ nreads_mapped' = 0
    /\ nreads_good_sequence' = 0
    /\ nreads_good_alignment' = 0
    /\ UNCHANGED <<b_args, b_header, b_yielded, records_read, observed_microbial_contigs,
                   idxstats, summary_writer, fasta_writer, unmapped_counter,
                   unmapped_good_quality_sequences, qvars, kvars, tvars, pvars>>

\* bam.rs:166-167: bam.fetch(&contig_name) fails.
FetchContigFails ==
    /\ b_pc = "contigs"
    /\ contig_idx < Len(observed_microbial_contigs)
    /\ Panic
    /\ UNCHANGED <<b_args, b_header, b_yielded, records_read, observed_microbial_contigs,
                   idxstats, counters, qvars, kvars, tvars, pvars>>

\* bam.rs:173-199: one turn of the pass 2 loop on a record that reads.
Pass2Record ==
    /\ b_pc = "pass2"
    /\ records_read < MaxReads
    /\ \E id \in RecordIds :
        LET record == Catalogue[id]
            bam_record == parse_record(record)
            contig_name == observed_microbial_contigs[contig_idx]
        IN /\ b_yielded' = [b_yielded EXCEPT ![contig_name] = Append(@, id)]
           /\ nreads' = nreads + 1
           /\ nreads_mapped' = IF ~record.is_unmapped THEN nreads_mapped + 1
                                                     ELSE nreads_mapped
           /\ IF pass2_good_sequence(record, bam_record)
              THEN /\ nreads_good_sequence' = nreads_good_sequence + 1
                   /\ fasta_writer' = [fasta_writer EXCEPT
                                         !.lines = Append(@, fasta_entry(bam_record))]
              ELSE UNCHANGED <<nreads_good_sequence, fasta_writer>>
           /\ nreads_good_alignment' = IF pass2_good_alignment(bam_record)
                                       THEN nreads_good_alignment + 1
                                       ELSE nreads_good_alignment
    /\ records_read' = records_read + 1
    /\ UNCHANGED <<b_pc, b_args, b_header, observed_microbial_contigs, idxstats,
                   summary_writer, unmapped_counter, unmapped_good_quality_sequences,
                   contig_idx, qvars, kvars, tvars, pvars>>

\* bam.rs:174: a record of the contig fails to read.
Pass2ReadFails ==
    /\ b_pc = "pass2"
    /\ records_read < MaxReads
    /\ records_read' = records_read + 1
    /\ Panic
    /\ UNCHANGED <<b_args, b_header, b_yielded, observed_microbial_contigs,
                   idxstats, counters, qvars, kvars, tvars, pvars>>

\* bam.rs:200-215: the contig is exhausted and its summary line written.
Pass2End ==
    /\ b_pc = "pass2"
    /\ b_pc' = "contigs"
    /\ summary_writer' = [summary_writer EXCEPT
            !.lines = Append(@, contig_line(observed_microbial_contigs[contig_idx],
                                            nreads_good_alignment))]
    /\ UNCHANGED <<b_args, b_header, b_yielded, records_read, observed_microbial_contigs,
                   idxstats, fasta_writer, counters, qvars, kvars, tvars, pvars>>

\* bam.rs:216-217: no contig is left; the function returns and drops its files.
Return ==
    /\ b_pc = "contigs"
    /\ contig_idx = Len(observed_microbial_contigs)
    /\ b_pc' = "done"
    /\ summary_writer' = dropped(summary_writer)
    /\ fasta_writer' = dropped(fasta_writer)
    /\ UNCHANGED <<b_args, b_header, b_yielded, records_read, observed_microbial_contigs,
                   idxstats, counters, qvars, kvars, tvars, pvars>>

NextBam ==
    \/ OpenReader \/ OpenReaderFails
    \/ IndexStats
    \/ WriteSummaryTotals
    \/ FetchUnmapped \/ FetchUnmappedFails
    \/ Pass1Record \/ Pass1ReadFails \/ Pass1End
    \/ FetchContig \/ FetchContigFails
    \/ Pass2Record \/ Pass2ReadFails \/ Pass2End
    \/ Return

SpecBam == InitBam /\ [][NextBam]_vars

\* --------------------------------------------------- kraken.rs: hit calling

\* cancer_microbes(): the (name, taxid) literal, in order.
cancer_microbes ==
    <<[name |-> "Human gammaherpesvirus 8", taxid |-> "37296"],
      [name |-> "Human gammaherpesvirus 4 (EBV)", taxid |-> "10376"],
      [name |-> "Human betaherpesvirus 6A", taxid |-> "32603"],
      [name |-> "Human betaherpesvirus 6B", taxid |-> "32604"],
      [name |-> "Human betaherpesvirus 7", taxid |-> "10372"],
      [name |-> "Primate T-lymphotropic virus 1", taxid |-> "194440"],
      [name |-> "Primate T-lymphotropic virus 2", taxid |-> "194441"],
      [name |-> "Human papillomavirus", taxid |-> "10566"],
      [name |-> "Hepatitis B virus", taxid |-> "10407"],
      [name |-> "Hepacivirus C", taxid |-> "11103"],
      [name |-> "Merkel cell polyomavirus", taxid |-> "493803"],
      [name |-> "Betapolyomavirus macacae", taxid |-> "1891767"],
      [name |-> "Betapolyomavirus secuhominis", taxid |-> "1891763"],
      [name |-> "Betapolyomavirus hominis", taxid |-> "1891762"],
      [name |-> "Cytolomegalovirus", taxid |-> "10358"],
      [name |-> "Alphatorquevirus", taxid |-> "687331"]>>

\* CancerMicrobes::contains
CancerMicrobes_contains(microbes, taxid) ==
    \E i \in 1..Len(microbes) : microbes[i].taxid = taxid

\* Mutant: the read threshold as the log message words it (>= min_number_reads).
passes_thresholds_reads_inclusive(record, thresholds) ==
    /\ record.clade_nreads_classified >= thresholds.min_number_reads
    /\ record.clade_percent_classified >= thresholds.min_prop_unmapped_reads

\* The numeric test of a report row (clade percents are f32, held here as integers).
passes_thresholds(record, thresholds) ==
    /\ record.clade_nreads_classified > thresholds.min_number_reads
    /\ record.clade_percent_classified >= thresholds.min_prop_unmapped_reads

\* Mutant: non-oncogenic rows are excluded whatever oncogenic_only is.
excluded_as_non_oncogenic_always(thresholds, is_oncogenic_microbe) ==
    ~is_oncogenic_microbe

\* Mutant: no row is excluded by the oncogenic table.
excluded_as_non_oncogenic_never(thresholds, is_oncogenic_microbe) == FALSE

\* thresholds.oncogenic_only & !is_oncogenic_microbe
excluded_as_non_oncogenic(thresholds, is_oncogenic_microbe) ==
    thresholds.oncogenic_only /\ ~is_oncogenic_microbe

\* Mutant: the hit row takes its read count from the taxon column of the report.
KrakenHit_taxon_reads(record, is_oncogenic_microbe) ==
    [taxid |-> record.taxid,
     rank |-> record.rank,
     name |-> record.name,
     clade_percent_classified |-> record.clade_percent_classified,
     clade_nreads_classified |-> record.taxon_nreads_classified,
     oncogenic |-> is_oncogenic_microbe]

\* The KrakenHit serialized for a record.
KrakenHit(record, is_oncogenic_microbe) ==
    [taxid |-> record.taxid,
     rank |-> record.rank,
     name |-> record.name,
     clade_percent_classified |-> record.clade_percent_classified,
     clade_nreads_classified |-> record.clade_nreads_classified,
     oncogenic |-> is_oncogenic_microbe]

\* Report rows that deserialize into a KreportRecord.
KreportRecords ==
    {[clade_percent_classified |-> p,
      clade_nreads_classified |-> n,
      taxon_nreads_classified |-> 0,
      rank |-> "S",
      taxid |-> t,
      name |-> IF t = "10376" THEN "Human gammaherpesvirus 4" ELSE "Foo"] :
        p \in {0, 1, 2}, n \in {0, 1, 2}, t \in {"10376", "9999"}}

KrakenHitThresholds ==
    [min_prop_unmapped_reads : {1, 2}, min_number_reads : {0, 1}, oncogenic_only : Bool]

InitKraken ==
    /\ QualIdle
    /\ BamIdle
    /\ TablesIdle
    /\ PipelineIdle
    /\ k_pc = "scan"
    /\ k_thresholds \in KrakenHitThresholds
    /\ k_seen = <<>>
    /\ k_hits = <<>>
    /\ n_non_oncogenics_excluded = 0
    /\ n_microbial_hits = 0

\* One turn of the loop over rdr_kreport.deserialize() on a well-formed row.
ScanRow ==
    /\ k_pc = "scan"
    /\ Len(k_seen) < MaxRows
    /\ \E record \in KreportRecords :
        LET is_oncogenic_microbe == CancerMicrobes_contains(cancer_microbes, record.taxid)
        IN /\ k_seen' = Append(k_seen, record)
           /\ IF passes_thresholds(record, k_thresholds)
              THEN IF excluded_as_non_oncogenic(k_thresholds, is_oncogenic_microbe)
                   THEN /\ n_non_oncogenics_excluded' = n_non_oncogenics_excluded + 1
                        /\ UNCHANGED <<k_hits, n_microbial_hits>>
                   ELSE /\ k_hits' = Append(k_hits, KrakenHit(record, is_oncogenic_microbe))
                        /\ n_microbial_hits' = n_microbial_hits + 1
                        /\ UNCHANGED n_non_oncogenics_excluded
              ELSE UNCHANGED <<k_hits, n_microbial_hits, n_non_oncogenics_excluded>>
    /\ UNCHANGED <<k_pc, k_thresholds, qvars, bvars, tvars, pvars>>

\* A row that does not deserialize: records_result.context(..)? returns the Err.
\* wtr is dropped on the way out, which flushes the rows serialized so far.
ScanMalformedRow ==
    /\ k_pc = "scan"
    /\ k_pc' = "err"
    /\ UNCHANGED <<k_thresholds, k_seen, k_hits, n_non_oncogenics_excluded,
                   n_microbial_hits, qvars, bvars, tvars, pvars>>

\* The report is exhausted: the counters are logged and Ok(()) returned.
ScanEnd ==
    /\ k_pc = "scan"
    /\ k_pc' = "done"
    /\ UNCHANGED <<k_thresholds, k_seen, k_hits, n_non_oncogenics_excluded,
                   n_microbial_hits, qvars, bvars, tvars, pvars>>

NextKraken == ScanRow \/ ScanMalformedRow \/ ScanEnd

SpecKraken == InitKraken /\ [][NextKraken]_vars

\* --------------------------- main.rs, bam.rs, kraken.rs: SpecPipeline, one run

\* How the process ends: main returns (status 0), main calls std::process::exit(1)
\* after run() returned an error, or a panic unwinds out of main (status 101).
ExitedOk == [status |-> 0, by |-> "main"]
ExitedByMain == [status |-> 1, by |-> "main"]
ExitedByPanic == [status |-> 101, by |-> "panic"]

\* Mutant: bam2microbes calls the hit caller before the classifier.
next_call_hits_first(stage) ==
    CASE stage = "triage" -> "call_hits"
      [] stage = "hits" -> "call_kraken"
      [] stage = "kraken" -> "call_remove"
      [] stage = "remove" -> "return"

\* bam2microbes: the statement that follows each of its calls.
next_call(stage) ==
    CASE stage = "triage" -> "call_kraken"
      [] stage = "kraken" -> "call_hits"
      [] stage = "hits" -> "call_remove"
      [] stage = "remove" -> "return"

InitPipeline ==
    /\ QualIdle
    /\ KrakenIdle
    /\ BamIdle
    /\ TablesIdle
    /\ p_pc = "bam2microbes"
    /\ p_trace = <<>>
    /\ p_exit = NotExited
    /\ p_fasta = "absent"

\* A panic unwinds through bam2microbes, run and main: the process ends there.
ProcessPanics ==
    /\ p_pc' = "exited"
    /\ p_exit' = ExitedByPanic

\* bam.rs:13-26: the BAM does not exist, its name has no stem, or the output
\* directory cannot be created.
SetupPanics ==
    /\ p_pc = "bam2microbes"
    /\ ProcessPanics
    /\ UNCHANGED <<p_trace, p_fasta, qvars, kvars, bvars, tvars>>

\* bam.rs:29: bam2unmappedreads(bam, unmapped_fasta, 50, 17.0) is called.
CallTriage ==
    /\ p_pc = "bam2microbes"
    /\ p_pc' = "triage"
    /\ p_trace' = Append(p_trace, "triage")
    /\ b_pc' = "start"
    /\ b_args' = [min_len |-> 50, min_phred |-> 17]
    /\ b_header' \in Headers
    /\ b_yielded' = [p \in Partitions |-> <<>>]
    /\ UNCHANGED <<p_exit, p_fasta, records_read, observed_microbial_contigs, idxstats,
                   summary_writer, fasta_writer, counters, qvars, kvars, tvars>>

\* bam2unmappedreads panicked: the FASTA file stays as the scan left it.
TriagePanics ==
    /\ p_pc = "triage"
    /\ b_pc = "panicked"
    /\ ProcessPanics
    /\ p_fasta' = IF fasta_writer.created > 0 THEN "written" ELSE "absent"
    /\ UNCHANGED <<p_trace, qvars, kvars, bvars, tvars>>

\* bam.rs:29-30: bam2unmappedreads returned.  Its locals are gone; what is left
\* of it for bam2microbes is the FASTA file at unmapped_fasta.
TriageReturns ==
    /\ p_pc = "triage"
    /\ b_pc = "done"
    /\ p_pc' = next_call("triage")
    /\ p_trace' = Append(p_trace, "triage_done")
    /\ p_fasta' = "written"
    /\ b_pc' = "idle"
    /\ b_args' = <<>>
    /\ b_header' = <<>>
    /\ b_yielded' = <<>>
    /\ records_read' = 0
    /\ observed_microbial_contigs' = <<>>
    /\ idxstats' = <<>>
    /\ summary_writer' = NoFile
    /\ fasta_writer' = NoFile
    /\ unmapped_counter' = 0
    /\ unmapped_good_quality_sequences' = 0
    /\ contig_idx' = 0
    /\ nreads' = 0
    /\ nreads_mapped' = 0
    /\ nreads_good_sequence' = 0
    /\ nreads_good_alignment' = 0
    /\ UNCHANGED <<p_exit, qvars, kvars, tvars>>

\* bam.rs:33: run_kraken is called on the FASTA file.
CallKraken ==
    /\ p_pc = "call_kraken"
    /\ p_pc' = "kraken"
    /\ p_trace' = Append(p_trace, "kraken")
    /\ UNCHANGED <<p_exit, p_fasta, qvars, kvars, bvars, tvars>>

\* kraken.rs:88-128: the output directory cannot be created, kraken2 is not on
\* the PATH or cannot be spawned: run_kraken returns Err.  No KrakenOutputPaths
\* exists, so the hit caller cannot be called; the error goes up to run().
KrakenReturnsErr ==
    /\ p_pc = "kraken"
    /\ p_pc' = "run_err"
    /\ UNCHANGED <<p_trace, p_exit, p_fasta, qvars, kvars, bvars, tvars>>

\* kraken.rs:130-133: kraken2 ran and exited with a non-zero status.
KrakenExitsNonZero ==
    /\ p_pc = "kraken"
    /\ ProcessPanics
    /\ UNCHANGED <<p_trace, p_fasta, qvars, kvars, bvars, tvars>>

\* kraken.rs:126-148: cmd.output() waited for kraken2, which exited with status 0.
KrakenReturnsOk ==
    /\ p_pc = "kraken"
    /\ p_pc' = next_call("kraken")
    /\ p_trace' = Append(p_trace, "kraken_ok")
    /\ UNCHANGED <<p_exit, p_fasta, qvars, kvars, bvars, tvars>>

\* bam.rs:36-39: identify_kraken_hits_from_kreport is called with the paths and
\* config_kraken.kraken_hit_thresholds.
CallHits ==
    /\ p_pc = "call_hits"
    /\ p_pc' = "hits"
    /\ p_trace' = Append(p_trace, "hits")
    /\ k_pc' = "scan"
    /\ k_thresholds' \in KrakenHitThresholds
    /\ UNCHANGED <<p_exit, p_fasta, k_seen, k_hits, n_non_oncogenics_excluded,
                   n_microbial_hits, qvars, bvars, tvars>>

\* bam.rs:39: the hit caller returned; its Result, Ok or Err, is dropped.
HitsReturn ==
    /\ p_pc = "hits"
    /\ k_pc \in {"done", "err"}
    /\ p_pc' = next_call("hits")
    /\ p_trace' = Append(p_trace, "hits_done")
    /\ UNCHANGED <<p_exit, p_fasta, qvars, kvars, bvars, tvars>>

\* bam.rs:43: remove_file(unmapped_fasta) succeeds and bam2microbes returns.
RemoveFasta ==
    /\ p_pc = "call_remove"
    /\ p_pc' = next_call("remove")
    /\ p_trace' = Append(p_trace, "remove")
    /\ p_fasta' = "removed"
    /\ UNCHANGED <<p_exit, qvars, kvars, bvars, tvars>>

\* bam.rs:43: remove_file fails.
RemoveFastaPanics ==
    /\ p_pc = "call_remove"
    /\ ProcessPanics
    /\ UNCHANGED <<p_trace, p_fasta, qvars, kvars, bvars, tvars>>

\* main.rs:129-133: run() returned an error: it is logged and the process exits 1.
MainExitsOnErr ==
    /\ p_pc = "run_err"
    /\ p_pc' = "exited"
    /\ p_exit' = ExitedByMain
    /\ UNCHANGED <<p_trace, p_fasta, qvars, kvars, bvars, tvars>>

\* main.rs:221-222, 129-134: run() returned Ok(()) and main returns.
MainReturns ==
    /\ p_pc = "return"
    /\ p_pc' = "exited"
    /\ p_exit' = ExitedOk
    /\ UNCHANGED <<p_trace, p_fasta, qvars, kvars, bvars, tvars>>

NextPipeline ==
    \/ SetupPanics
    \/ CallTriage
    \/ NextBam
    \/ TriagePanics
    \/ TriageReturns
    \/ CallKraken
    \/ KrakenReturnsErr
    \/ KrakenExitsNonZero
    \/ KrakenReturnsOk
    \/ CallHits
    \/ NextKraken
    \/ HitsReturn
    \/ RemoveFasta
    \/ RemoveFastaPanics
    \/ MainExitsOnErr
    \/ MainReturns

SpecPipeline == InitPipeline /\ [][NextPipeline]_vars

\* ------------------------------------------- bam.rs, kraken.rs: static tables

\* Option<&str>
NoneStr == [some |-> FALSE, value |-> ""]

\* the index of the first element of a non-empty set of indices: Iterator::next
\* after Iterator::filter
first_of(indices) == CHOOSE i \in indices : \A j \in indices : i <= j

\* Mutant: the last matching entry wins.
contig_to_species_last(contigs, contig_name) ==
    LET matching == {i \in 1..Len(contigs) : contigs[i].contig = contig_name}
    IN  IF matching = {}
        THEN NoneStr
        ELSE Some(contigs[CHOOSE i \in matching : \A j \in matching : i >= j].species)

\* MicrobialContigs::contig_to_species
contig_to_species(contigs, contig_name) ==
    LET matching == {i \in 1..Len(contigs) : contigs[i].contig = contig_name}
    IN  IF matching = {}
        THEN NoneStr
        ELSE Some(contigs[first_of(matching)].species)

\* CancerMicrobes::_taxid_to_name
taxid_to_name(microbes, taxid) ==
    LET matching == {i \in 1..Len(microbes) : microbes[i].taxid = taxid}
    IN  IF matching = {}
        THEN NoneStr
        ELSE Some(microbes[first_of(matching)].name)

\* ---- SpecTables: one lookup in a table

\* Sequences over S of length at most n.
SeqsUpTo(S, n) == UNION {[1..k -> S] : k \in 0..n}

\* Tables are Vec fields: besides the two tables the program builds, lookups are
\* run on every short table over two keys and two values, so that a key can occur
\* twice with different values.
ContigEntries ==
    [contig : {"NC_007605", "ADAWD"}, taxid : {"10376"}, species : {"EBV", "HHV6B"}]

MicrobeEntries ==
    [name : {"Human gammaherpesvirus 4 (EBV)", "Hepatitis B virus"},
     taxid : {"10376", "9999"}]

ContigTables ==
    {[kind |-> "MicrobialContigs", entries |-> t] :
        t \in {common_microbial_contigs} \cup SeqsUpTo(ContigEntries, MaxEntries)}

MicrobeTables ==
    {[kind |-> "CancerMicrobes", entries |-> t] :
        t \in {cancer_microbes} \cup SeqsUpTo(MicrobeEntries, MaxEntries)}

ContigKeys == {"NC_007605", "NC_000898", "ADAWD"}

TaxidKeys == {"10376", "9999", "10407"}

InitTables ==
    /\ QualIdle
    /\ KrakenIdle
    /\ BamIdle
    /\ PipelineIdle
    /\ \/ t_table \in ContigTables /\ t_key \in ContigKeys
       \/ t_table \in MicrobeTables /\ t_key \in TaxidKeys
    /\ t_ret = NoCall

CallContigContains ==
    /\ t_ret.fn = "none"
    /\ t_table.kind = "MicrobialContigs"
    /\ t_ret' = [fn |-> "contains",
                 value |-> MicrobialContigs_contains(t_table.entries, t_key)]
    /\ UNCHANGED <<t_table, t_key, qvars, kvars, bvars, pvars>>

CallContigToSpecies ==
    /\ t_ret.fn = "none"
    /\ t_table.kind = "MicrobialContigs"
    /\ t_ret' = [fn |-> "lookup", value |-> contig_to_species(t_table.entries, t_key)]
    /\ UNCHANGED <<t_table, t_key, qvars, kvars, bvars, pvars>>

CallMicrobeContains ==
    /\ t_ret.fn = "none"
    /\ t_table.kind = "CancerMicrobes"
    /\ t_ret' = [fn |-> "contains",
                 value |-> CancerMicrobes_contains(t_table.entries, t_key)]
    /\ UNCHANGED <<t_table, t_key, qvars, kvars, bvars, pvars>>

CallTaxidToName ==
    /\ t_ret.fn = "none"
    /\ t_table.kind = "CancerMicrobes"
    /\ t_ret' = [fn |-> "lookup", value |-> taxid_to_name(t_table.entries, t_key)]
    /\ UNCHANGED <<t_table, t_key, qvars, kvars, bvars, pvars>>

NextTables ==
    \/ CallContigContains
    \/ CallContigToSpecies
    \/ CallMicrobeContains
    \/ CallTaxidToName

SpecTables == InitTables /\ [][NextTables]_vars

\* ---------------------------------------------- claims on the triage scan

\* The header contigs that are in the microbial contig table, in header order.
InContigTable(c) ==
    \E i \in 1..Len(common_microbial_contigs) : common_microbial_contigs[i].contig = c
HeaderMicrobial == SelectSeq(b_header, InContigTable)

\* The records of the catalogue by what the production thresholds make of them.
GoodSequenceId(id) == is_good_quality_sequence(parse_record(Catalogue[id]), 50, 17, 2)
MappedGoodSequenceId(id) == ~Catalogue[id].is_unmapped /\ GoodSequenceId(id)
GoodAlignmentId(id) ==
    is_good_quality_alignment(parse_record(Catalogue[id]), 50, 17, 2, 10, 130)
GoodAlignments(ids) == Cardinality({i \in 1..Len(ids) : GoodAlignmentId(ids[i])})

SummaryLines == summary_writer.lines
FastaEntries == fasta_writer.lines

\* The first three summary lines are the totals, labelled and in order.
TotalsWritten ==
    /\ Len(SummaryLines) >= 3
    /\ SummaryLines[1][1] = "total depth (number of reads)"
    /\ SummaryLines[2][1] = "total mapped reads"
    /\ SummaryLines[3][1] = "total unmapped reads"

\* C3: when bam2unmappedreads has returned, the summary file is the three total
\* lines followed by one line "Contig [name] good quality alignments<TAB>n" for each
\* header contig of the microbial table, in header order, and nothing else; n is
\* the number of that contig's records for which is_good_quality_alignment holds.
C3_SummaryContigLines ==
    b_pc = "done" =>
        /\ TotalsWritten
        /\ Len(SummaryLines) = 3 + Len(HeaderMicrobial)
        /\ \A i \in 1..Len(HeaderMicrobial) :
              SummaryLines[3 + i] =
                  <<"Contig [", HeaderMicrobial[i], "] good quality alignments", "\t",
                    GoodAlignments(b_yielded[HeaderMicrobial[i]])>>

\* C3 witness: a run over a header with two microbial contigs returned; one contig
\* yielded two records of which exactly one is a good alignment.
C3_Witness ==
    /\ b_pc = "done"
    /\ Len(HeaderMicrobial) = 2
    /\ \E i \in 1..2 :
          /\ Len(b_yielded[HeaderMicrobial[i]]) = 2
          /\ SummaryLines[3 + i][5] = 1

SumMapped == total_mapped_reads_of(idxstats)
SumUnmapped == total_unmapped_reads_of(idxstats)

\* C4: the three totals are in the summary file, in the order total, mapped,
\* unmapped, before any record is read in pass 1 or pass 2; the total is the sum
\* over the references of mapped + unmapped, which is total mapped + total unmapped.
C4_TotalsBeforeRecords ==
    /\ (records_read > 0 \/ b_pc \in {"pass1", "pass2"}) => TotalsWritten
    /\ Len(SummaryLines) > 0 =>
          /\ TotalsWritten
          /\ SummaryLines[2][3] = SumMapped
          /\ SummaryLines[3][3] = SumUnmapped
          /\ SummaryLines[1][3] = SumMapped + SumUnmapped
          /\ SummaryLines[1][3] = SummaryLines[2][3] + SummaryLines[3][3]

\* C4 witness: a record was read from a source whose index counts mapped and
\* unmapped reads.
C4_Witness ==
    /\ records_read > 0
    /\ TotalsWritten
    /\ SummaryLines[2][3] > 0
    /\ SummaryLines[3][3] > 0

EntryOf(id) == <<">", id, "\n", Catalogue[id].seq, "\n">>
RECURSIVE EntriesOf(_)
EntriesOf(ids) ==
    IF ids = <<>> THEN <<>> ELSE <<EntryOf(Head(ids))>> \o EntriesOf(Tail(ids))
RECURSIVE Pass2Entries(_)
Pass2Entries(contig_names) ==
    IF contig_names = <<>> THEN <<>>
    ELSE EntriesOf(SelectSeq(b_yielded[Head(contig_names)], MappedGoodSequenceId))
         \o Pass2Entries(Tail(contig_names))

\* C5: the FASTA output is, in this order, one entry per record of the unmapped
\* partition that passes is_good_quality_sequence, in scan order, then for each
\* visited microbial contig in visiting order one entry per record of it that is
\* mapped and passes is_good_quality_sequence, in scan order, and nothing else;
\* whether a record passes is_good_quality_alignment plays no part.
C5_FastaOutput ==
    FastaEntries = EntriesOf(SelectSeq(b_yielded["*"], GoodSequenceId))
                   \o Pass2Entries(HeaderMicrobial)

\* C5 witness: a run returned whose FASTA holds an entry from pass 1 and then the
\* entry of a contig record that is a good sequence but not a good alignment,
\* while another record that was read has no entry.
C5_Witness ==
    /\ b_pc = "done"
    /\ records_read = 3
    /\ Len(b_yielded["*"]) >= 1
    /\ Len(FastaEntries) = 2
    /\ FastaEntries[2] = EntryOf("weak_alignment")
    /\ \E i \in 1..Len(HeaderMicrobial) :
          \E j \in 1..Len(b_yielded[HeaderMicrobial[i]]) :
              b_yielded[HeaderMicrobial[i]][j] = "weak_alignment"

\* ---------------------------------------------- claims on the hit caller

\* A step of the report scan that consumed a well-formed row, and that row.
RowScanned == k_pc = "scan" /\ Len(k_seen') = Len(k_seen) + 1
ScannedRow == k_seen'[Len(k_seen')]
LastSeen == k_seen[Len(k_seen)]
\* The row's numbers against the thresholds, as the claims word the test.
NumericTest(row) ==
    /\ row.clade_nreads_classified > k_thresholds.min_number_reads
    /\ row.clade_percent_classified >= k_thresholds.min_prop_unmapped_reads
InOncogenicTable(taxid) == \E i \in 1..Len(cancer_microbes) : cancer_microbes[i].taxid = taxid
HitRowOf(row) ==
    [taxid |-> row.taxid, rank |-> row.rank, name |-> row.name,
     clade_percent_classified |-> row.clade_percent_classified,
     clade_nreads_classified |-> row.clade_nreads_classified,
     oncogenic |-> InOncogenicTable(row.taxid)]
Emitted(row) == k_hits' = Append(k_hits, HitRowOf(row))
NotEmitted == k_hits' = k_hits
Excluded == n_non_oncogenics_excluded' = n_non_oncogenics_excluded + 1

C2_OncogenicOnlyExclusion ==
    [][(RowScanned /\ NumericTest(ScannedRow) /\ ~InOncogenicTable(ScannedRow.taxid)) =>
        IF k_thresholds.oncogenic_only
        THEN /\ NotEmitted
             /\ n_microbial_hits' = n_microbial_hits
             /\ n_non_oncogenics_excluded' = n_non_oncogenics_excluded + 1
        ELSE /\ Emitted(ScannedRow)
             /\ n_microbial_hits' = n_microbial_hits + 1
             /\ n_non_oncogenics_excluded' = n_non_oncogenics_excluded]_vars

\* C2 witness: with oncogenic_only true, a row over both thresholds with a taxid
\* outside the table was scanned last; it was excluded and nothing was emitted.
C2_Witness ==
    /\ k_seen # <<>>
    /\ k_thresholds.oncogenic_only
    /\ NumericTest(LastSeen)
    /\ ~InOncogenicTable(LastSeen.taxid)
    /\ n_non_oncogenics_excluded = 1
    /\ n_microbial_hits = 0
    /\ k_hits = <<>>

\* ---------------------------------------------- claims on the classifier

\* The record and thresholds of the call, as the claims speak of them.
FlagsClean == ~q_record.is_quality_check_failed /\ ~q_record.is_duplicate
LongEnough == Len(q_record.seq) >= q_args.min_len
FewNs == number_of_ns(q_record.seq) <= q_args.max_n
\* mean(qual) >= min_phred, the mean of no scores being 0
MeanAtLeast ==
    IF Len(q_record.qual) = 0 THEN 0 >= q_args.min_phred
    ELSE SumScores(q_record.qual) >= q_args.min_phred * Len(q_record.qual)
\* mean(qual) = m, for a record that has scores
MeanIs(m) ==
    Len(q_record.qual) > 0 /\ SumScores(q_record.qual) = m * Len(q_record.qual)
ReturnedSequence == q_ret.fn = "is_good_quality_sequence"
ReturnedAlignment == q_ret.fn = "is_good_quality_alignment"
SequenceHolds ==
    is_good_quality_sequence(parse_record(q_record),
                             q_args.min_len, q_args.min_phred, q_args.max_n)
\* every test of is_good_quality_alignment but the mapping quality's
AlignmentFlagsClean ==
    ~q_record.is_secondary /\ ~q_record.is_quality_check_failed /\ ~q_record.is_unmapped
ScoreAbove == parse_record(q_record).alignment_score > q_args.min_alignment_score

\* C6: is_good_quality_alignment returns false whenever is_good_quality_sequence,
\* called with the same min_len, min_phred and max_n, is false, whatever the
\* mapping quality, the alignment score and the secondary/unmapped flags are.
C6_AlignmentImpliesSequence ==
    (ReturnedAlignment /\ ~SequenceHolds) => q_ret.value = FALSE

\* C6 witness: a record that passes every alignment test (flags, mapq, score) and
\* fails the sequence test was classified.
C6_Witness ==
    /\ ReturnedAlignment
    /\ ~SequenceHolds
    /\ AlignmentFlagsClean
    /\ q_record.mapq > q_args.min_mapq
    /\ ScoreAbove
    /\ q_ret.value = FALSE

C9_PhredBoundary ==
    (ReturnedSequence /\ FlagsClean /\ LongEnough /\ FewNs) =>
        /\ (MeanIs(q_args.min_phred) => q_ret.value = TRUE)
        /\ (MeanIs(q_args.min_phred - 1) => q_ret.value = FALSE)
        /\ (Len(q_record.qual) = 0 => (q_ret.value = TRUE <=> q_args.min_phred <= 0))

\* C9 witness: a record with scores whose mean is exactly min_phred > 0 passed.
C9_Witness ==
    /\ ReturnedSequence
    /\ q_args.min_phred > 0
    /\ MeanIs(q_args.min_phred)
    /\ q_ret.value = TRUE

\* C10: with the other criteria met, a record whose mapping quality is exactly
\* min_mapq fails is_good_quality_alignment and one with min_mapq + 1 passes.
C10_MapqBoundary ==
    (ReturnedAlignment /\ SequenceHolds /\ AlignmentFlagsClean /\ ScoreAbove) =>
        /\ (q_record.mapq = q_args.min_mapq => q_ret.value = FALSE)
        /\ (q_record.mapq = q_args.min_mapq + 1 => q_ret.value = TRUE)

\* C10 witness: a record with mapping quality min_mapq + 1 passed, and the same
\* thresholds reject mapping quality min_mapq.
C10_Witness ==
    /\ ReturnedAlignment
    /\ q_record.mapq = q_args.min_mapq + 1
    /\ q_ret.value = TRUE

\* the AS tag is an integer annotation, and the number it records
ScoreAnnotated == q_record.aux_as.kind \in IntegerAuxKinds
AnnotatedScore == q_record.aux_as.value
\* every test of is_good_quality_alignment but the alignment score's
OtherAlignmentTestsPass ==
    SequenceHolds /\ AlignmentFlagsClean /\ q_record.mapq > q_args.min_mapq

\* C11: with the other criteria met, a record whose alignment score is exactly
\* min_alignment_score fails is_good_quality_alignment and one whose score is
\* min_alignment_score + 1 passes; a record whose AS tag is absent or of a
\* non-integer type is classified without an error with the score 0, so it passes
\* exactly when min_alignment_score < 0 and fails whenever min_alignment_score >= 0.
C11_AlignmentScoreBoundary ==
    (ReturnedAlignment /\ OtherAlignmentTestsPass) =>
        /\ q_ret.value \in Bool
        /\ (ScoreAnnotated /\ AnnotatedScore = q_args.min_alignment_score
                => q_ret.value = FALSE)
        /\ (ScoreAnnotated /\ AnnotatedScore = q_args.min_alignment_score + 1
                => q_ret.value = TRUE)
        /\ (~ScoreAnnotated => (q_ret.value = TRUE <=> 0 > q_args.min_alignment_score))

\* C11 witness: a record that meets every other criterion and carries an AS tag of
\* a non-integer type, with a non-zero value, was rejected under
\* min_alignment_score = 0.
C11_Witness ==
    /\ ReturnedAlignment
    /\ OtherAlignmentTestsPass
    /\ q_record.aux_as.kind = "Float"
    /\ q_record.aux_as.value > 0
    /\ q_args.min_alignment_score = 0
    /\ q_ret.value = FALSE

\* ---------------------------------------------- claims on the static tables

ReturnedLookup == t_ret.fn = "lookup"
ReturnedContains == t_ret.fn = "contains"
KeyOf(entry) == IF t_table.kind = "MicrobialContigs" THEN entry.contig ELSE entry.taxid
ValueOf(entry) == IF t_table.kind = "MicrobialContigs" THEN entry.species ELSE entry.name
\* the positions of the table whose key is the key looked up
MatchingEntries == {i \in 1..Len(t_table.entries) : KeyOf(t_table.entries[i]) = t_key}
\* no earlier entry of the table has the key looked up
IsFirstMatch(i) == i \in MatchingEntries /\ \A j \in 1..(i - 1) : j \notin MatchingEntries
ContigTableLookup(contig_name) ==
    t_table.entries = common_microbial_contigs /\ t_key = contig_name

\* C12: in both static tables the forward lookup returns the value of the first
\* entry whose key matches and 'not found' when no entry matches; membership is
\* true exactly when an entry matches, that is when the lookup finds a value.  In
\* the microbial contig table NC_007605 is a member and maps to EBV, NC_000898
\* maps to HHV6B, and an unknown contig is no member and maps to nothing.
C12_TableLookup ==
    /\ ReturnedLookup =>
        /\ MatchingEntries = {} => ~t_ret.value.some
        /\ \A i \in MatchingEntries :
              IsFirstMatch(i) =>
                  t_ret.value.some /\ t_ret.value.value = ValueOf(t_table.entries[i])
    /\ ReturnedContains => (t_ret.value = TRUE <=> MatchingEntries # {})
    /\ (ReturnedLookup /\ ContigTableLookup("NC_007605")) => t_ret.value = Some("EBV")
    /\ (ReturnedContains /\ ContigTableLookup("NC_007605")) => t_ret.value = TRUE
    /\ (ReturnedLookup /\ ContigTableLookup("NC_000898")) => t_ret.value = Some("HHV6B")
    /\ (ReturnedLookup /\ ContigTableLookup("ADAWD")) => ~t_ret.value.some
    /\ (ReturnedContains /\ ContigTableLookup("ADAWD")) => t_ret.value = FALSE

\* C12 witness: a lookup in a contig table whose two entries both have the key
\* looked up, with different species, returned the species of the first entry.
C12_Witness ==
    /\ ReturnedLookup
    /\ t_table.kind = "MicrobialContigs"
    /\ Len(t_table.entries) = 2
    /\ MatchingEntries = {1, 2}
    /\ t_table.entries[1].species # t_table.entries[2].species
    /\ t_ret.value = Some(t_table.entries[1].species)

\* ------------------------------------- claims on the hit table and its counters

\* A scanned row is accepted when it meets both numeric thresholds and, with
\* oncogenic_only set, its taxid is in the oncogenic table.
Accepted(row) ==
    NumericTest(row) /\ (k_thresholds.oncogenic_only => InOncogenicTable(row.taxid))
AcceptedSoFar == SelectSeq(k_seen, Accepted)
NumericSoFar == SelectSeq(k_seen, NumericTest)

\* C13: after any prefix of the report scan, whether the scan goes on, ended or
\* failed on a malformed row, the hit table holds one row for each accepted report
\* row scanned so far and no other, in the order the rows were scanned; the hit
\* counter is the number of rows of the hit table; each hit row carries the taxid,
\* rank, name, clade percent and clade reads of its report row.
C13_HitTableIsAcceptedPrefix ==
    /\ Len(k_hits) = Len(AcceptedSoFar)
    /\ n_microbial_hits = Len(k_hits)
    /\ \A i \in 1..Len(k_hits) :
          /\ k_hits[i].taxid = AcceptedSoFar[i].taxid
          /\ k_hits[i].rank = AcceptedSoFar[i].rank
          /\ k_hits[i].name = AcceptedSoFar[i].name
          /\ k_hits[i].clade_percent_classified = AcceptedSoFar[i].clade_percent_classified
          /\ k_hits[i].clade_nreads_classified = AcceptedSoFar[i].clade_nreads_classified

\* C13 witness: two different rows were scanned, both were accepted, and the hit
\* table holds the row of the first and then the row of the second.
C13_Witness ==
    /\ Len(k_seen) = 2
    /\ k_seen[1] # k_seen[2]
    /\ n_microbial_hits = 2
    /\ k_hits = <<HitRowOf(k_seen[1]), HitRowOf(k_seen[2])>>

\* C20: at every point of the report scan the hit counter plus the exclusion
\* counter is the number of rows scanned so far that meet both numeric thresholds;
\* with oncogenic_only false the exclusion counter is 0; with oncogenic_only true
\* every row of the hit table has its oncogenic flag set.
C20_CountersPartitionNumericRows ==
    /\ n_microbial_hits + n_non_oncogenics_excluded = Len(NumericSoFar)
    /\ ~k_thresholds.oncogenic_only => n_non_oncogenics_excluded = 0
    /\ k_thresholds.oncogenic_only => \A i \in 1..Len(k_hits) : k_hits[i].oncogenic = TRUE

\* C20 witness: with oncogenic_only true, one row meeting the thresholds was
\* emitted and another was excluded.
C20_Witness ==
    /\ k_thresholds.oncogenic_only
    /\ Len(k_seen) = 2
    /\ n_microbial_hits = 1
    /\ n_non_oncogenics_excluded = 1
    /\ k_hits[1].oncogenic = TRUE

\* ------------------------------------- claims on the files of the triage scan

Terminal == b_pc \in {"done", "panicked"}
BothClosed == ~summary_writer.open /\ ~fasta_writer.open

\* C14, as the specification words it: in every terminal state of the scan the
\* FASTA file and the summary file have each been opened exactly once and neither
\* is open.
C14_OpenedExactlyOnceAndClosed ==
    Terminal =>
        /\ summary_writer.created = 1
        /\ fasta_writer.created = 1
        /\ BothClosed

\* C14, amended: the FASTA file and the summary file are each opened at most once
\* per run, and exactly once in every run that completes or that attempted to read
\* a record; in every terminal state, completed or failed, neither file is open.
C14_OpenedAtMostOnceAndClosed ==
    /\ summary_writer.created <= 1
    /\ fasta_writer.created <= 1
    /\ (b_pc = "done" \/ records_read > 0) =>
          summary_writer.created = 1 /\ fasta_writer.created = 1
    /\ Terminal => BothClosed

\* C14 witness: the scan failed reading a record after it had written a FASTA
\* entry; both files were opened once and both are closed.
C14_Witness ==
    /\ b_pc = "panicked"
    /\ records_read > 0
    /\ FastaEntries # <<>>
    /\ SummaryLines # <<>>
    /\ summary_writer.created = 1
    /\ fasta_writer.created = 1
    /\ BothClosed

\* C16: a fatal condition discards the work accumulated for the input: once the
\* triage scan has failed, the FASTA file and the summary file hold no entry and no
\* line, and once the hit caller has failed on a malformed row the hit table holds
\* no row.
C16_FailureDiscardsWork ==
    /\ b_pc = "panicked" => FastaEntries = <<>> /\ SummaryLines = <<>>
    /\ k_pc = "err" => k_hits = <<>>

\* the unmapped records yielded so far that pass is_good_quality_sequence with the
\* min_len and min_phred the caller passed (max_n is no parameter of the scan)
GoodForCaller(id) ==
    is_good_quality_sequence(parse_record(Catalogue[id]), b_args.min_len, b_args.min_phred, 2)

\* C17: the thresholds applied in pass 1 are the ones passed to bam2unmappedreads:
\* during pass 1 the FASTA file holds the entries of exactly the records yielded so
\* far for which is_good_quality_sequence holds with the caller's min_len and
\* min_phred, in order.
C17_CallerThresholdsApplied ==
    b_pc = "pass1" => FastaEntries = EntriesOf(SelectSeq(b_yielded["*"], GoodForCaller))

\* ------------------------------------- claims on the counters of pass 2

InPass2 == b_pc = "pass2"
\* a step of pass 2 that consumed a record of the contig
Pass2RecordStep == b_pc = "pass2" /\ b_pc' = "pass2" /\ records_read' = records_read + 1
\* a step that starts the scan of a contig
ContigStarts == b_pc = "contigs" /\ b_pc' = "pass2"
ByAtMostOne(before, after) == after = before \/ after = before + 1

\* C19: while a contig is scanned in pass 2, good alignments <= good sequences <=
\* mapped reads <= reads seen; a record raises each of the four counters by at most
\* one (and the reads seen by exactly one); all four are zero when the scan of a
\* contig starts.
C19_Pass2CounterOrder ==
    /\ [](InPass2 =>
            /\ nreads_good_alignment <= nreads_good_sequence
            /\ nreads_good_sequence <= nreads_mapped
            /\ nreads_mapped <= nreads)
    /\ [][Pass2RecordStep =>
            /\ nreads' = nreads + 1
            /\ ByAtMostOne(nreads_mapped, nreads_mapped')
            /\ ByAtMostOne(nreads_good_sequence, nreads_good_sequence')
            /\ ByAtMostOne(nreads_good_alignment, nreads_good_alignment')]_vars
    /\ [][ContigStarts =>
            /\ nreads' = 0
            /\ nreads_mapped' = 0
            /\ nreads_good_sequence' = 0
            /\ nreads_good_alignment' = 0]_vars

\* C19 witness: in the scan of a contig the four counters are all different: three
\* reads seen, two of them mapped, one a good sequence, none a good alignment.
C19_Witness ==
    /\ InPass2
    /\ nreads = 3
    /\ nreads_mapped = 2
    /\ nreads_good_sequence = 1
    /\ nreads_good_alignment = 0

\* ------------------------------------- claims on the run as a whole

\* C15: no component ends the process itself: the triage scan never panics, and
\* whenever the process has ended with a non-zero status it was main that ended
\* it, after the error was returned to it.
C15_OnlyMainTerminates ==
    /\ b_pc # "panicked"
    /\ (p_pc = "exited" /\ p_exit.status # 0) => p_exit.by = "main"

StageOrder == <<"triage", "triage_done", "kraken", "kraken_ok", "hits", "hits_done", "remove">>
IsPrefix(s, t) == Len(s) <= Len(t) /\ s = SubSeq(t, 1, Len(s))
Reached(event) == \E i \in 1..Len(p_trace) : p_trace[i] = event
\* a step that adds the event to the trace of the run
Happens(event) == p_trace' = Append(p_trace, event)

====
